---- MODULE Spec2Model ----
(***************************************************************************)
(* Model of the EditTask dialog component (src/components/EditTask.tsx).   *)
(*                                                                         *)
(* The component keeps five pieces of React state (editedTask, nameError,  *)
(* descriptionError, emoji, selectedCategories), receives the props task,  *)
(* onClose and onSave, and declares three effects, in this order:          *)
(*   useEffect [emoji], useEffect [task], useEffect [selectedCategories].  *)
(*                                                                         *)
(* An event handler runs to completion and its state updates are applied   *)
(* by the next render.  After a render React runs, in declaration order,   *)
(* the effects whose dependency differs (Object.is) from the one of the    *)
(* previous render; every effect of one commit reads the values of that    *)
(* render.  The updates queued by the effects cause a further render, and  *)
(* so on until no dependency changed.  React flushes these effects before  *)
(* it dispatches the next event, so the user events below are enabled in   *)
(* quiescent states only; CommitEffects is one commit's effect pass.       *)
(* The open prop only shows or hides the dialog and is left out: the       *)
(* parent may reopen the dialog after any close.                           *)
(*                                                                         *)
(* JavaScript values: strings are TLA+ strings, undefined is Undef, an     *)
(* array is a reference (arrays are never mutated here, so a reference     *)
(* denotes a fixed content, Items) and Object.is is equality.  An object   *)
(* of type Task is a record over TaskFields with present = TRUE, a missing *)
(* key reading as Undef; the value undefined of type Task | undefined is   *)
(* the record Undefined.                                                   *)
(***************************************************************************)
EXTENDS Integers, Sequences, FiniteSets, TLC

VARIABLES
    task,                \* prop task?: Task
    enableCategories,    \* user.settings[0].enableCategories
    editedTask,          \* useState<Task | undefined>(task)
    nameError,           \* useState<boolean>(false)
    descriptionError,    \* useState<boolean>(false)
    emoji,               \* useState<string | undefined>()
    selectedCategories,  \* useState<Category[]>([])
    deps,                \* the effects' dependencies as of the last commit
    bodyOverflow,        \* document.body.style.overflow
    calls,               \* calls of onSave / onClose made by the last event
    lastEvent            \* the last event dispatched to the component

vars == <<task, enableCategories, editedTask, nameError, descriptionError,
          emoji, selectedCategories, deps, bodyOverflow, calls, lastEvent>>

----------------------------------------------------------------------------
(* Values *)

\* Longest text a user types into a field of the model.
MaxStrLen == 3

\* import { DESCRIPTION_MAX_LENGTH, TASK_NAME_MAX_LENGTH } from "../constants"
\* (scaled down; only the comparison with the typed length matters).
TASK_NAME_MAX_LENGTH == 1
DESCRIPTION_MAX_LENGTH == 2

Undef == "<undefined>"

RECURSIVE Rep(_)
Rep(n) == IF n = 0 THEN "" ELSE "a" \o Rep(n - 1)

Texts == { Rep(n) : n \in 0..MaxStrLen }

Deadlines == { "", "2024-01-01T10:00" }
Emojis == { "1f600" }
Colors == { "#b624ff", "#ffffff" }

\* Arrays of Category: the initial state [] of useState, the category array
\* of a supplied task, and the arrays the category selector reports.
InitialArray == "useState[]"
TaskArrays == { "T1.category" }
WidgetArrays == { "select[]", "select[work]" }
ArrayRefs == {InitialArray} \cup TaskArrays \cup WidgetArrays

Items(ref) ==
    CASE ref = "T1.category" -> <<"home">>
      [] ref = "select[work]" -> <<"work">>
      [] OTHER -> <<>>

TaskFields == { "id", "name", "description", "deadline", "emoji", "color",
                "category", "lastSave" }

Undefined ==
    [ present |-> FALSE, id |-> Undef, name |-> Undef, description |-> Undef,
      deadline |-> Undef, emoji |-> Undef, color |-> Undef,
      category |-> Undef, lastSave |-> Undef ]

\* The tasks the parent supplies: stored tasks, which have a valid name.
T1 ==
    [ present |-> TRUE, id |-> "1", name |-> "a", description |-> "aa",
      deadline |-> "2024-01-01T10:00", emoji |-> "1f600", color |-> "#b624ff",
      category |-> "T1.category", lastSave |-> "2023-12-24" ]

T2 ==
    [ present |-> TRUE, id |-> "2", name |-> "a", description |-> Undef,
      deadline |-> Undef, emoji |-> Undef, color |-> "#ffffff",
      category |-> Undef, lastSave |-> Undef ]

Tasks == { T1, T2 }
TaskProps == Tasks \cup {Undefined}

\* JavaScript truthiness of a string | undefined value.
Truthy(x) == x # Undef /\ x # ""

\* { ...(prevTask as Task) }: spreading undefined yields an empty object.
Spread(prevTask) == [prevTask EXCEPT !.present = TRUE]

\* Variant: an empty array taken for falsy, as an empty string is.
OrUndefinedEmptyIsFalsy(x) == IF x \in ArrayRefs /\ Items(x) # <<>> THEN x ELSE Undef

\* x || undefined, for x: Category[] | undefined (every array is truthy).
OrUndefined(x) == IF x \in ArrayRefs THEN x ELSE Undef

----------------------------------------------------------------------------
(* Rendering *)

\* Variant: the button disabled by the length flag alone.
SaveDisabledByFlagOnly == nameError

\* disabled={nameError || editedTask?.name === ""}
SaveDisabled == nameError \/ editedTask.name = ""

\* startAdornment: editedTask?.deadline ? <clear button> : undefined
ClearShown == Truthy(editedTask.deadline)

\* Variant: the category section rendered whatever the setting.
CategorySelectAlwaysShown == TRUE

\* user.settings[0].enableCategories !== undefined && ...enableCategories
\* (an undefined setting renders like false and is modelled as FALSE)
CategorySelectShown == enableCategories = TRUE

Deps(mounted, e, t, s) == [ mounted |-> mounted, emoji |-> e, task |-> t, sel |-> s ]

EmojiChanged == ~deps.mounted \/ deps.emoji # emoji
TaskChanged == ~deps.mounted \/ deps.task # task
SelChanged == ~deps.mounted \/ deps.sel # selectedCategories

EffectsPending == EmojiChanged \/ TaskChanged \/ SelChanged
Quiescent == ~EffectsPending

----------------------------------------------------------------------------
(* Effects *)

\* useEffect(() => setEditedTask(prev => ({...prev, emoji: emoji})), [emoji])
EmojiEffect(prevTask, e) == [Spread(prevTask) EXCEPT !.emoji = e]

\* Variant: the new task fills only the keys the draft has not set.
TaskEffectDraftMerged(prevTask, t) ==
    [ f \in DOMAIN t |-> IF f # "present" /\ prevTask[f] # Undef THEN prevTask[f] ELSE t[f] ]

\* Variant: the effect resets the draft and leaves the list as it is.
TaskEffectCategoriesKept(t) == selectedCategories

\* useEffect(() => { setEditedTask(task); setSelectedCategories(task?.category) }, [task])
TaskEffectDraft(prevTask, t) == t
TaskEffectCategories(t) == t.category

\* useEffect(() => setEditedTask(prev => ({...prev, category: sel || undefined})), [sel])
CategoryEffect(prevTask, s) == [Spread(prevTask) EXCEPT !.category = OrUndefined(s)]

\* One commit: the effects whose dependency changed, in declaration order,
\* each reading emoji, task and selectedCategories of this render; the
\* queued editedTask updates are applied in the order they were queued.
CommitEffects ==
    /\ EffectsPending
    /\ LET d1 == IF EmojiChanged THEN EmojiEffect(editedTask, emoji) ELSE editedTask
           d2 == IF TaskChanged THEN TaskEffectDraft(d1, task) ELSE d1
           d3 == IF SelChanged THEN CategoryEffect(d2, selectedCategories) ELSE d2
       IN  /\ editedTask' = d3
           /\ selectedCategories' =
                 IF TaskChanged THEN TaskEffectCategories(task) ELSE selectedCategories
    /\ deps' = Deps(TRUE, emoji, task, selectedCategories)
    /\ UNCHANGED <<task, enableCategories, nameError, descriptionError, emoji,
                   bodyOverflow, calls, lastEvent>>

----------------------------------------------------------------------------
(* Event handlers *)

OnSaveCall(editedArg) == [ fn |-> "onSave", arg |-> editedArg ]
OnCloseCall == [ fn |-> "onClose", arg |-> Undefined ]

\* name === "name" && value.length > TASK_NAME_MAX_LENGTH
NameErrorFor(name, value) == name = "name" /\ Len(value) > TASK_NAME_MAX_LENGTH

\* name === "description" && value.length > DESCRIPTION_MAX_LENGTH
DescriptionErrorFor(name, value) ==
    name = "description" /\ Len(value) > DESCRIPTION_MAX_LENGTH

\* Variant: the object is built from the changed key alone.
SetFieldUnspread(prevTask, name, value) == [Spread(Undefined) EXCEPT ![name] = value]

\* setEditedTask(prev => ({...prev, [name]: value}))
SetField(prevTask, name, value) == [Spread(prevTask) EXCEPT ![name] = value]

\* handleInputChange: onChange of the Name, Description and Deadline inputs.
HandleInputChange(name, value) ==
    /\ Quiescent
    /\ nameError' = NameErrorFor(name, value)
    /\ descriptionError' = DescriptionErrorFor(name, value)
    /\ editedTask' = SetField(editedTask, name, value)
    /\ calls' = <<>>
    /\ lastEvent' = "input:" \o name
    /\ UNCHANGED <<task, enableCategories, emoji, selectedCategories, deps,
                   bodyOverflow>>

\* if (editedTask && !nameError && !descriptionError)
SaveAllowed == editedTask.present /\ ~nameError /\ ~descriptionError

\* Variant: the scroll lock released inside the if, with the save.
OverflowAfterSaveIfAllowed == IF SaveAllowed THEN "auto" ELSE bodyOverflow

\* document.body.style.overflow = "auto", the first statement of handleSave.
OverflowAfterSave == "auto"

\* Variant: the handler closes the dialog itself after a save.
SaveCallsThenClose ==
    IF SaveAllowed THEN <<OnSaveCall(editedTask), OnCloseCall>> ELSE <<>>

\* if (...) { onSave(editedTask); toast.success(...) }
SaveCalls == IF SaveAllowed THEN <<OnSaveCall(editedTask)>> ELSE <<>>

\* handleSave: onClick of the Save button (a disabled button is not clicked).
HandleSave ==
    /\ Quiescent
    /\ ~SaveDisabled
    /\ bodyOverflow' = OverflowAfterSave
    /\ calls' = SaveCalls
    /\ lastEvent' = "save"
    /\ UNCHANGED <<task, enableCategories, editedTask, nameError,
                   descriptionError, emoji, selectedCategories, deps>>

\* Variant: the draft is left as it is on close.
ResetDraftKept == editedTask

\* Variant: the list is left as it is on close.
ResetCategoriesKept == selectedCategories

\* onClose(); setEditedTask(task); setSelectedCategories(task?.category)
ResetDraft == task
ResetCategories == task.category

\* handleCancel: onClick of the Cancel button.
HandleCancel ==
    /\ Quiescent
    /\ calls' = <<OnCloseCall>>
    /\ editedTask' = ResetDraft
    /\ selectedCategories' = ResetCategories
    /\ lastEvent' = "cancel"
    /\ UNCHANGED <<task, enableCategories, nameError, descriptionError, emoji,
                   deps, bodyOverflow>>

\* <Dialog onClose={...}>: backdrop click or escape key.
DialogOnClose ==
    /\ Quiescent
    /\ calls' = <<OnCloseCall>>
    /\ editedTask' = ResetDraft
    /\ selectedCategories' = ResetCategories
    /\ lastEvent' = "dialogClose"
    /\ UNCHANGED <<task, enableCategories, nameError, descriptionError, emoji,
                   deps, bodyOverflow>>

\* Variant: the object is built without spreading the previous draft.
WithoutDeadlineUnspread(prevTask) == Spread(Undefined)

\* setEditedTask(prev => ({...prev, deadline: undefined}))
WithoutDeadline(prevTask) == [Spread(prevTask) EXCEPT !.deadline = Undef]

\* onClick of the deadline's clear button, rendered while a deadline is set.
ClearDeadline ==
    /\ Quiescent
    /\ ClearShown
    /\ editedTask' = WithoutDeadline(editedTask)
    /\ calls' = <<>>
    /\ lastEvent' = "clearDeadline"
    /\ UNCHANGED <<task, enableCategories, nameError, descriptionError, emoji,
                   selectedCategories, deps, bodyOverflow>>

\* ColorPicker onColorChange: setEditedTask(prev => ({...prev, color: color}))
OnColorChange(color) ==
    /\ Quiescent
    /\ editedTask' = [Spread(editedTask) EXCEPT !.color = color]
    /\ calls' = <<>>
    /\ lastEvent' = "color"
    /\ UNCHANGED <<task, enableCategories, nameError, descriptionError, emoji,
                   selectedCategories, deps, bodyOverflow>>

\* CustomEmojiPicker setEmoji={setEmoji}: a pick, or undefined to clear.
SetEmoji(e) ==
    /\ Quiescent
    /\ emoji' = e
    /\ calls' = <<>>
    /\ lastEvent' = "setEmoji"
    /\ UNCHANGED <<task, enableCategories, editedTask, nameError,
                   descriptionError, selectedCategories, deps, bodyOverflow>>

\* CategorySelect setSelectedCategories={setSelectedCategories}
SetSelectedCategories(s) ==
    /\ Quiescent
    /\ CategorySelectShown
    /\ selectedCategories' = s
    /\ calls' = <<>>
    /\ lastEvent' = "setSelectedCategories"
    /\ UNCHANGED <<task, enableCategories, editedTask, nameError,
                   descriptionError, emoji, deps, bodyOverflow>>

\* The parent renders the component with another task prop.
TaskPropChange(t) ==
    /\ Quiescent
    /\ t # task
    /\ task' = t
    /\ calls' = <<>>
    /\ lastEvent' = "taskProp"
    /\ UNCHANGED <<enableCategories, editedTask, nameError, descriptionError,
                   emoji, selectedCategories, deps, bodyOverflow>>

\* The handlers that edit the draft locally.
LocalEditEvents ==
    { "input:name", "input:description", "input:deadline", "color",
      "setEmoji", "setSelectedCategories" }

\* The parent renders the component with another task prop in the update
\* batch of the last local edit: one render sees the edit and the new task,
\* and its commit runs the effects of both.  (After an edit that left no
\* effect pending this is a task change right after the edit.)
BatchedTaskChange(t) ==
    /\ deps.mounted
    /\ lastEvent \in LocalEditEvents
    /\ ~TaskChanged
    /\ t # task
    /\ task' = t
    /\ calls' = <<>>
    /\ lastEvent' = "taskProp+edit"
    /\ UNCHANGED <<enableCategories, editedTask, nameError, descriptionError,
                   emoji, selectedCategories, deps, bodyOverflow>>

----------------------------------------------------------------------------
(* Specification *)

\* The first render: the useState initial values, no effect run yet.
Init ==
    /\ task \in TaskProps
    /\ enableCategories \in BOOLEAN
    /\ editedTask = task
    /\ nameError = FALSE
    /\ descriptionError = FALSE
    /\ emoji = Undef
    /\ selectedCategories = InitialArray
    /\ deps = Deps(FALSE, Undef, Undefined, Undef)
    /\ bodyOverflow = "hidden"
    /\ calls = <<>>
    /\ lastEvent = "mount"

InputChange ==
    \/ \E value \in Texts : HandleInputChange("name", value)
    \/ \E value \in Texts : HandleInputChange("description", value)
    \/ \E value \in Deadlines : HandleInputChange("deadline", value)

EmojiPick == \E e \in Emojis \cup {Undef} : SetEmoji(e)
ColorPick == \E color \in Colors : OnColorChange(color)
CategoryPick == \E s \in WidgetArrays : SetSelectedCategories(s)
ExternalTaskChange == \E t \in TaskProps : TaskPropChange(t)
BatchedExternalTaskChange == \E t \in TaskProps : BatchedTaskChange(t)

Next ==
    \/ CommitEffects
    \/ InputChange
    \/ HandleSave
    \/ HandleCancel
    \/ DialogOnClose
    \/ ClearDeadline
    \/ ColorPick
    \/ EmojiPick
    \/ CategoryPick
    \/ ExternalTaskChange
    \/ BatchedExternalTaskChange

Spec == Init /\ [][Next]_vars

TypeOK ==
    /\ task \in TaskProps
    /\ enableCategories \in BOOLEAN
    /\ editedTask.present \in BOOLEAN
    /\ nameError \in BOOLEAN
    /\ descriptionError \in BOOLEAN
    /\ emoji \in Emojis \cup {Undef}
    /\ selectedCategories \in ArrayRefs \cup {Undef}
    /\ bodyOverflow \in {"hidden", "auto"}
    /\ Len(calls) <= 1

----------------------------------------------------------------------------
(* Properties *)

\* Equality of two Task | undefined values, key by key.
FieldsEqual(d, t) == \A f \in TaskFields : d[f] = t[f]

TooLong(x, max) == x # Undef /\ Len(x) > max

InvalidDraft(d) ==
    \/ d.name = ""
    \/ TooLong(d.name, TASK_NAME_MAX_LENGTH)
    \/ TooLong(d.description, DESCRIPTION_MAX_LENGTH)

\* C1: onSave is never called with a draft whose name is empty or longer
\* than TASK_NAME_MAX_LENGTH, or whose description is longer than
\* DESCRIPTION_MAX_LENGTH (stated for the dialog editing a supplied task).
C1_NoInvalidSave ==
    task.present =>
        \A i \in 1..Len(calls) :
            calls[i].fn = "onSave" => ~InvalidDraft(calls[i].arg)

\* Save with a draft present and both flags false calls onSave once, with
\* the draft as it is.
SaveVerbatim ==
    [][(HandleSave /\ SaveAllowed) => calls' = <<OnSaveCall(editedTask)>>]_vars

\* C2: a Save with the draft present and both flags false calls onSave
\* exactly once with the draft, and that draft carries the values the user
\* chose: saving right after an emoji pick passes the picked emoji.
C2_SaveCarriesChoices ==
    [][(HandleSave /\ SaveAllowed) =>
          /\ calls' = <<OnSaveCall(editedTask)>>
          /\ lastEvent = "setEmoji" => editedTask.emoji = emoji]_vars

\* C3: whenever the draft's name is longer than TASK_NAME_MAX_LENGTH,
\* nameError is true and Save is disabled (stated for the dialog editing a
\* supplied task).
C3_LongNameFlagged ==
    (task.present /\ TooLong(editedTask.name, TASK_NAME_MAX_LENGTH)) =>
        nameError /\ SaveDisabled

\* C4: whenever the draft's description is longer than
\* DESCRIPTION_MAX_LENGTH, descriptionError is true, so that Save does not
\* call onSave (stated for the dialog editing a supplied task).
C4_LongDescriptionFlagged ==
    (task.present /\ TooLong(editedTask.description, DESCRIPTION_MAX_LENGTH)) =>
        descriptionError /\ ~SaveAllowed

\* C5: Cancel and backdrop dismissal are enabled in every quiescent state,
\* whatever the flags; each calls onClose exactly once and, once the effects
\* have settled, the draft equals the supplied task key by key and
\* selectedCategories is that task's category.
C5_CancelRestores ==
    /\ Quiescent => (ENABLED HandleCancel) /\ (ENABLED DialogOnClose)
    /\ lastEvent \in {"cancel", "dialogClose"} => calls = <<OnCloseCall>>
    /\ (lastEvent \in {"cancel", "dialogClose"} /\ Quiescent) =>
          /\ FieldsEqual(editedTask, task)
          /\ selectedCategories = task.category

\* A cancel after a too-long name was typed, settled on a supplied task.
C5_Witness ==
    /\ lastEvent = "cancel"
    /\ Quiescent
    /\ nameError
    /\ task = T1
    /\ editedTask = T1
    /\ calls = <<OnCloseCall>>

\* C6: after the task prop changed and the effects have settled, the draft
\* equals the new task key by key and selectedCategories is the new task's
\* category.
C6_TaskChangeReplacesDraft ==
    (lastEvent = "taskProp" /\ Quiescent) =>
        /\ FieldsEqual(editedTask, task)
        /\ selectedCategories = task.category

\* The task prop went to another task while an emoji was picked and a
\* too-long description typed, and the effects have settled.
C6_Witness ==
    /\ lastEvent = "taskProp"
    /\ Quiescent
    /\ task = T2
    /\ editedTask = T2
    /\ emoji # Undef
    /\ descriptionError

\* C7: after every setEmoji(e) of the emoji picker, once the effects have
\* settled, the draft's emoji is e.
C7_PickOverwrites ==
    (lastEvent = "setEmoji" /\ Quiescent) => editedTask.emoji = emoji

\* C8 as stated: after the category selector changed the list, the draft's
\* category is the list when it is non-empty and unset when it is empty.
C8_EmptyListUnsets ==
    (lastEvent = "setSelectedCategories" /\ Quiescent) =>
        editedTask.category =
            IF Items(selectedCategories) # <<>> THEN selectedCategories ELSE Undef

\* C8 amended: after the category selector changed the list, the draft's
\* category is that list, the empty list included.
C8_ListStored ==
    (lastEvent = "setSelectedCategories" /\ Quiescent) =>
        /\ selectedCategories \in WidgetArrays
        /\ editedTask.category = selectedCategories

\* The selector reported the empty list and the draft stores it.
C8_Witness ==
    /\ lastEvent = "setSelectedCategories"
    /\ Quiescent
    /\ task = T1
    /\ Items(selectedCategories) = <<>>
    /\ editedTask.category = selectedCategories

\* C9: the deadline clear sets the draft's deadline to undefined and changes
\* no other key of the draft, no flag, not the emoji state nor
\* selectedCategories, triggers no effect and calls neither onSave nor
\* onClose.
C9_ClearDeadlineFrame ==
    [][ClearDeadline =>
          /\ editedTask'.deadline = Undef
          /\ \A f \in TaskFields \ {"deadline"} : editedTask'[f] = editedTask[f]
          /\ editedTask'.present = editedTask.present
          /\ UNCHANGED <<nameError, descriptionError, emoji, selectedCategories,
                         task, bodyOverflow>>
          /\ calls' = <<>>
          /\ Quiescent']_vars

\* The deadline of an edited draft was cleared.
C9_Witness ==
    /\ lastEvent = "clearDeadline"
    /\ editedTask.deadline = Undef
    /\ task.deadline # Undef
    /\ editedTask.name = "aa"
    /\ editedTask.id = task.id

\* C10: while the draft's name is the empty string Save is disabled: the
\* button is rendered disabled and no Save step is taken.
C10_EmptyNameDisablesSave ==
    [][editedTask.name = "" => SaveDisabled /\ ~HandleSave]_vars

\* An empty name with both flags false and otherwise valid fields.
C10_Witness ==
    /\ Quiescent
    /\ editedTask.name = ""
    /\ ~nameError
    /\ ~descriptionError
    /\ ~TooLong(editedTask.description, DESCRIPTION_MAX_LENGTH)

\* C11: every Save sets document.body.style.overflow to "auto", also when a
\* validation flag is set or the draft is undefined and onSave is not called.
C11_SaveRestoresScrolling ==
    [][HandleSave => bodyOverflow' = "auto"]_vars

\* A Save blocked by descriptionError has restored scrolling and called
\* nothing.
C11_Witness ==
    /\ lastEvent = "save"
    /\ descriptionError
    /\ calls = <<>>
    /\ bodyOverflow = "auto"

\* C12: with a task supplied and the effects settled, the draft's id and
\* lastSave are those of the supplied task, and so are the id and lastSave of
\* every draft passed to onSave.
C12_IdAndLastSaveKept ==
    (task.present /\ Quiescent) =>
        /\ editedTask.id = task.id
        /\ editedTask.lastSave = task.lastSave
        /\ \A i \in 1..Len(calls) :
              calls[i].fn = "onSave" =>
                  /\ calls[i].arg.id = task.id
                  /\ calls[i].arg.lastSave = task.lastSave

\* A draft with an edited name, description and deadline was saved with the
\* id and lastSave of its task.
C12_Witness ==
    /\ task = T1
    /\ Quiescent
    /\ lastEvent = "save"
    /\ calls = <<OnSaveCall(editedTask)>>
    /\ editedTask.name # T1.name
    /\ editedTask.description # T1.description
    /\ editedTask.deadline # T1.deadline
    /\ editedTask.id = "1"
    /\ editedTask.lastSave = "2023-12-24"

\* C13: with enableCategories off the category selector cannot be used, and
\* once the effects have settled the draft's category, and the category of
\* every draft passed to onSave, is the category of the supplied task.
C13_CategoriesOffKeepsCategory ==
    ~enableCategories =>
        /\ ~ENABLED CategoryPick
        /\ Quiescent =>
              /\ editedTask.category = task.category
              /\ \A i \in 1..Len(calls) :
                    calls[i].fn = "onSave" => calls[i].arg.category = task.category

\* With categories off, an edited draft was saved with its task's category.
C13_Witness ==
    /\ ~enableCategories
    /\ Quiescent
    /\ task = T1
    /\ lastEvent = "save"
    /\ calls = <<OnSaveCall(editedTask)>>
    /\ editedTask.color # T1.color
    /\ editedTask.emoji # T1.emoji
    /\ editedTask.category = "T1.category"

\* C14: a keystroke in Name recomputes nameError and leaves descriptionError
\* unchanged, a keystroke in Description recomputes descriptionError and
\* leaves nameError unchanged, and a deadline edit leaves both unchanged
\* (stated for the dialog editing a supplied task).
C14_FlagsIndependent ==
    [][task.present =>
        /\ (\A v \in Texts :
              HandleInputChange("name", v) =>
                  /\ nameError' = (Len(v) > TASK_NAME_MAX_LENGTH)
                  /\ descriptionError' = descriptionError)
        /\ (\A w \in Texts :
              HandleInputChange("description", w) =>
                  /\ descriptionError' = (Len(w) > DESCRIPTION_MAX_LENGTH)
                  /\ nameError' = nameError)
        /\ (\A d \in Deadlines :
              HandleInputChange("deadline", d) =>
                  /\ nameError' = nameError
                  /\ descriptionError' = descriptionError)]_vars

\* C15: when the task prop changes in the update batch of a local edit (a
\* text edit, an emoji pick, a color pick or a category selection), then
\* once the effects have settled the draft equals the new task key by key
\* and selectedCategories is the new task's category.
C15_BatchedResetWins ==
    (lastEvent = "taskProp+edit" /\ Quiescent) =>
        /\ FieldsEqual(editedTask, task)
        /\ selectedCategories = task.category

\* The first commit of a batch of a category selection and a task change:
\* the new task's draft still carries the selected list.
BatchedSelectionApplied ==
    /\ lastEvent = "taskProp+edit"
    /\ ~TaskChanged
    /\ SelChanged
    /\ task.present
    /\ editedTask.id = task.id
    /\ editedTask.category \in WidgetArrays

\* A batch of an edit and a change to a task without emoji and category has
\* settled on that task, an emoji having been picked.
C15_Witness ==
    /\ lastEvent = "taskProp+edit"
    /\ Quiescent
    /\ task = T2
    /\ editedTask.present
    /\ FieldsEqual(editedTask, T2)
    /\ selectedCategories = Undef
    /\ emoji = "1f600"

\* C16: while no task is supplied since mount, the draft is undefined once
\* the mount effects have run, and a Save does not call onSave.
C16_NoTaskNoDraft ==
    [][(lastEvent = "mount" /\ ~task.present /\ Quiescent) =>
          /\ ~editedTask.present
          /\ HandleSave => calls' = <<>>]_vars

\* C17: with a task supplied and the effects settled, whenever the draft's
\* name is non-empty and at most TASK_NAME_MAX_LENGTH long and its
\* description at most DESCRIPTION_MAX_LENGTH long, both flags are false,
\* Save is enabled and a Save calls onSave.
C17_FlagsNeverStale ==
    (/\ task.present
     /\ Quiescent
     /\ Truthy(editedTask.name)
     /\ ~TooLong(editedTask.name, TASK_NAME_MAX_LENGTH)
     /\ ~TooLong(editedTask.description, DESCRIPTION_MAX_LENGTH)) =>
        /\ ~nameError
        /\ ~descriptionError
        /\ ~SaveDisabled
        /\ SaveAllowed

\* C18: a Save never calls onClose and leaves the draft, both flags, the
\* emoji state and selectedCategories unchanged, with no effect pending,
\* whether or not onSave was called.
C18_SaveKeepsDialog ==
    [][HandleSave =>
          /\ \A i \in 1..Len(calls') : calls'[i].fn # "onClose"
          /\ UNCHANGED <<editedTask, nameError, descriptionError, emoji,
                         selectedCategories, task>>
          /\ Quiescent']_vars

\* An edited draft was saved and is still there, unsaved edits included.
C18_Witness ==
    /\ lastEvent = "save"
    /\ calls = <<OnSaveCall(editedTask)>>
    /\ task = T1
    /\ editedTask.name # T1.name
    /\ selectedCategories \in WidgetArrays
    /\ emoji = Undef

\* C19: with a task supplied and the effects settled, the draft's category
\* is selectedCategories when that is a list and undefined when it is
\* undefined.
C19_CategoryAgreesWithList ==
    (task.present /\ Quiescent) =>
        IF selectedCategories \in ArrayRefs
        THEN editedTask.category = selectedCategories
        ELSE selectedCategories = Undef /\ editedTask.category = Undef

\* A selected list survived a text edit, a color pick, an emoji pick and a
\* deadline clear, the last event.
C19_Witness ==
    /\ task = T1
    /\ Quiescent
    /\ lastEvent = "clearDeadline"
    /\ selectedCategories = "select[work]"
    /\ editedTask.category = "select[work]"
    /\ editedTask.description # T1.description
    /\ editedTask.color # T1.color
    /\ editedTask.emoji # T1.emoji

====
